---- MODULE Spec2Model ----
(***************************************************************************)
(* Tracklet stitching (deeplabcut/refine_training_dataset/stitch.py).      *)
(*                                                                         *)
(* Two specifications share this module.                                   *)
(*   SpecTracklet  the Tracklet value type: construction (stable sort),    *)
(*                 merge (__add__) and split_tracklet, on arbitrary index  *)
(*                 sequences (any order, duplicates allowed).              *)
(*   Spec          a TrackletStitcher from construction to write_tracks.   *)
(*                                                                         *)
(* A Tracklet is [inds, data]: two sequences of equal length, data[i] the  *)
(* record of frame inds[i].  A record is modelled by a token naming where  *)
(* it came from; the coordinates themselves are not carried.               *)
(***************************************************************************)
EXTENDS Integers, Sequences, FiniteSets, TLC

\* ------------------------------------------------------------------ bounds
\* SpecTracklet draws index sequences of length 1..MaxLen over 0..MaxInd.
MaxLen == 3
MaxInd == 2
\* Spec loads 1..MaxFragments fragments of the Catalogue, keeps the inputs
\* that load as at most MaxTracklets graph tracklets and at most
\* MaxResiduals residuals, reconstructs
\* 2..MaxTracks tracks and calls build_graph with max_gap in 0..MaxGapArg
\* (0: no argument).  distance_to takes values in 0..MaxDist.
MaxFragments == 3
MaxTracklets == 5
MaxResiduals == 3
MaxTracks == 3
MaxGapArg == 1
MaxDist == 1

VARIABLES
    \* --- SpecTracklet
    raw,        \* the (data, inds) handed to Tracklet(...)
    built,      \* Tracklet(raw.data, raw.inds), or Unset
    other,      \* the right operand of the last __add__, or Unset
    result,     \* what the last operation returned: a list of Tracklets
    top,        \* the last operation: "input", "new", "add", "split"
    \* --- Spec: the fields of one TrackletStitcher
    n_tracks,           \* self.n_tracks
    tracklets,          \* self.tracklets: the Tracklets that enter the graph
    residuals,          \* self.residuals
    n_frames,           \* self.n_frames
    first_tracklets,    \* self._first_tracklets
    last_tracklets,     \* self._last_tracklets
    G,                  \* self.G, or NoGraph
    flow,               \* self.flow: the edges carrying one unit, {} if unset
    paths,              \* self.paths: a list of lists of Tracklets, None if unset
    tracks,             \* self.tracks: a list of Tracklets, None if unset
    \* --- Spec: the caller and what it observes
    pc,                 \* how far the pipeline got: "constructed", "graph_built",
                        \* "build_failed", "stitched", "stitch_failed"
    op,                 \* the last call: "init", "build_graph", "stitch", "write_tracks"
    err,                \* what the last call raised, NoError if it returned
    table,              \* the table write_tracks handed to the writer, NoTable if none
    \* --- Spec: history (read by the properties only)
    max_gap,            \* the last build_graph: its argument and the gap it used
    solve,              \* how the last stitch went
    fin_log             \* the steps of the last _finalize_tracks loop

tvars == <<raw, built, other, result, top>>
svars == <<n_tracks, tracklets, residuals, n_frames, first_tracklets,
           last_tracklets, G, flow, paths, tracks, pc, op, err, table, max_gap,
           solve, fin_log>>
vars == <<tvars, svars>>

\* ------------------------------------------------------------- Tracklet

\* A Tracklet that was never assigned (no Tracklet of the program is empty:
\* lines 322-323 skip empty fragments and np.split yields non-empty pieces).
Unset == [inds |-> <<>>, data |-> <<>>]

\* line 22: all(a < b for a, b in zip(inds, inds[1:]))
monotonically_increasing(inds) ==
    \A i \in 1..(Len(inds) - 1) : inds[i] < inds[i + 1]

\* One merge step of a merge sort over positions: on a tie the left run goes
\* first, which is what makes the sort stable.
RECURSIVE MergeRuns(_, _, _)
MergeRuns(a, b, inds) ==
    IF a = <<>> THEN b
    ELSE IF b = <<>> THEN a
    ELSE IF inds[Head(a)] <= inds[Head(b)]
         THEN <<Head(a)>> \o MergeRuns(Tail(a), b, inds)
         ELSE <<Head(b)>> \o MergeRuns(a, Tail(b), inds)

RECURSIVE MergeSort(_, _)
MergeSort(idx, inds) ==
    IF Len(idx) <= 1 THEN idx
    ELSE LET h == Len(idx) \div 2
         IN  MergeRuns(MergeSort(SubSeq(idx, 1, h), inds),
                       MergeSort(SubSeq(idx, h + 1, Len(idx)), inds),
                       inds)

\* An unstable sort of the same positions: ties come out in reverse order.
RECURSIVE UnstableMergeRuns(_, _, _)
UnstableMergeRuns(a, b, inds) ==
    IF a = <<>> THEN b
    ELSE IF b = <<>> THEN a
    ELSE IF inds[Head(a)] < inds[Head(b)]
         THEN <<Head(a)>> \o UnstableMergeRuns(Tail(a), b, inds)
         ELSE <<Head(b)>> \o UnstableMergeRuns(a, Tail(b), inds)

RECURSIVE UnstableSort(_, _)
UnstableSort(idx, inds) ==
    IF Len(idx) <= 1 THEN idx
    ELSE LET h == Len(idx) \div 2
         IN  UnstableMergeRuns(UnstableSort(SubSeq(idx, 1, h), inds),
                               UnstableSort(SubSeq(idx, h + 1, Len(idx)), inds),
                               inds)

argsort_unstable(inds) == UnstableSort([i \in 1..Len(inds) |-> i], inds)

\* line 24: np.argsort(inds, kind='mergesort'), as 1-based positions
argsort(inds) == MergeSort([i \in 1..Len(inds) |-> i], inds)

\* lines 19-27: Tracklet.__init__
Tracklet(data, inds) ==
    IF monotonically_increasing(inds)
    THEN [inds |-> inds, data |-> data]
    ELSE LET idx == argsort(inds)
         IN  [inds |-> [k \in 1..Len(idx) |-> inds[idx[k]]],
              data |-> [k \in 1..Len(idx) |-> data[idx[k]]]]

\* lines 29-30: __len__
len(t) == Len(t.inds)

\* lines 83-89: start, end
start(t) == t.inds[1]
end(t) == t.inds[Len(t.inds)]

\* lines 32-36: __add__
Add(self, o) == Tracklet(self.data \o o.data, self.inds \o o.inds)

\* lines 118-120: is_continuous
is_continuous(t) == end(t) - start(t) + 1 = len(t)

\* line 353: np.flatnonzero(np.diff(tracklet.inds) != 1) + 1, as the 1-based
\* positions at which a new piece starts
split_points_gaps_only(t) == {i \in 2..len(t) : t.inds[i] - t.inds[i - 1] > 1}

split_points(t) == {i \in 2..len(t) : t.inds[i] - t.inds[i - 1] # 1}

\* lines 354-355: np.split(a, idx): the pieces of a between the cut positions
RECURSIVE np_split(_, _, _)
np_split(a, cuts, from) ==
    IF from > Len(a) THEN <<>>
    ELSE LET later == {c \in cuts : c > from}
             to == IF later = {} THEN Len(a)
                   ELSE (CHOOSE c \in later : \A d \in later : c <= d) - 1
         IN  <<SubSeq(a, from, to)>> \o np_split(a, cuts, to + 1)

\* lines 351-356: split_tracklet
split_tracklet(t) ==
    LET idx == split_points(t)
        inds_new == np_split(t.inds, idx, 1)
        data_new == np_split(t.data, idx, 1)
    IN  [k \in 1..Len(inds_new) |-> Tracklet(data_new[k], inds_new[k])]

\* lines 51-53: self.__contains__(o): some frame index is shared.  np.isin
\* is exact here: every Tracklet of Spec has distinct indices unless two
\* tracklets sharing a frame were merged, and for the lengths of this model
\* np.isin compares element by element whatever assume_unique says.
Contains(self, o) ==
    \E i \in 1..len(self), j \in 1..len(o) : self.inds[i] = o.inds[j]

\* Python's `a in b` is b.__contains__(a)
In(a, b) == Contains(b, a)

\* lines 43-45: __lt__
Lt(self, o) == end(self) < start(o)

\* lines 47-49: __gt__
Gt(self, o) == start(self) > end(o)

\* lines 151-158: time_gap_to
time_gap_to(self, o) ==
    IF In(self, o) THEN 0
    ELSE IF Lt(self, o) THEN start(o) - end(self)
    ELSE start(self) - end(o)

\* ------------------------------------------------ TrackletStitcher.__init__

\* The smallest min_length the constructor accepts (line 292); every
\* stitcher of Spec is constructed with it.
MinLength == 3

Max(S) == CHOOSE x \in S : \A y \in S : y <= x
Min(S) == CHOOSE x \in S : \A y \in S : x <= y

\* sorted(seq, key=...), keys[i] the key of seq[i]: Python's sort is stable
sorted(seq, keys) ==
    LET idx == MergeSort([i \in 1..Len(seq) |-> i], keys)
    IN  [k \in 1..Len(seq) |-> seq[idx[k]]]

\* One frame of a fragment as loaded from the pickle: its frame index (what
\* get_frame_ind, lines 347-349, reads off the label) and whether its record
\* is NaN for every bodypart.
Entry(i) == [ind |-> i, nan |-> FALSE]
AllNan(i) == [ind |-> i, nan |-> TRUE]
Labelled(labels) == [i \in 1..Len(labels) |-> Entry(labels[i])]

\* The fragments of the inputs, each in the order of its labels in the
\* pickle: three runs of three frames two frames apart, the three of them in
\* one fragment with gaps, a gappy fragment whose labels are out of order and
\* whose last frame is all NaN, and a short gappy fragment out of order.
Catalogue ==
    { Labelled(<<0, 1, 2>>),
      Labelled(<<4, 5, 6>>),
      Labelled(<<8, 9, 10>>),
      Labelled(<<0, 1, 2, 4, 5, 6, 8, 9, 10>>),
      Labelled(<<9, 7, 3>>) \o <<AllNan(1)>>,
      Labelled(<<5, 1>>) }

\* lines 311-328: the Tracklets of fragment number k.  The record of a frame
\* is modelled by <<k, the frame's label>>.
LoadFragment(frag, k, split_tracklets) ==
    LET kept == SelectSeq(frag, LAMBDA e : ~e.nan)
        t == Tracklet([i \in 1..Len(kept) |-> <<k, kept[i].ind>>],
                      [i \in 1..Len(kept) |-> kept[i].ind])
    IN  IF kept = <<>> THEN <<>>
        ELSE IF ~is_continuous(t) /\ split_tracklets THEN split_tracklet(t)
        ELSE <<t>>

\* line 310: for dict_ in tracklets.values()
RECURSIVE LoadAll(_, _, _)
LoadAll(frags, k, split_tracklets) ==
    IF k > Len(frags) THEN <<>>
    ELSE LoadFragment(frags[k], k, split_tracklets)
         \o LoadAll(frags, k + 1, split_tracklets)

\* lines 307-339: the fields __init__ sets
Construct(frags, n, min_length, split_tracklets) ==
    LET all == LoadAll(frags, 1, split_tracklets)
        ts == SelectSeq(all, LAMBDA t : len(t) >= min_length)
        rs == SelectSeq(all, LAMBDA t : len(t) < min_length)
        \* line 312: the last label of each fragment, before any filtering
        last_frames == {frags[k][Len(frags[k])].ind : k \in 1..Len(frags)}
        by_start == sorted(ts, [i \in 1..Len(ts) |-> start(ts[i])])
        by_end == sorted(ts, [i \in 1..Len(ts) |-> end(ts[i])])
        m == IF n < Len(ts) THEN n ELSE Len(ts)
    IN  [tracklets |-> ts,
         residuals |-> rs,
         n_frames |-> Max(last_frames) + 1,
         first_tracklets |-> SubSeq(by_start, 1, m),
         last_tracklets |-> SubSeq(by_end, Len(ts) - m + 1, Len(ts))]

\* ---------------------------------------------------------------- graph

\* Node labels: f'{i}in' and f'{i}out' of line 375 are NodeIn(i + 1) and
\* NodeOut(i + 1): tracklets are numbered from 1 here.
Source == <<"source", 0>>
Sink == <<"sink", 0>>
NodeIn(i) == <<"in", i>>
NodeOut(i) == <<"out", i>>

\* self.G is None
NoGraph == [nodes |-> {}, edges |-> {}]
\* self.paths is None, self.tracks is None (a list that was assigned is
\* never empty)
None == <<>>
NoTable == [n_rows |-> 0, cell |-> <<>>]

\* self._mapping_inv restricted to the labels of a graph
IndexOf(ts, t) == CHOOSE i \in 1..Len(ts) : ts[i] = t

\* The smallest of the gaps to the nearest instead of the largest.
compute_max_gap_smallest(ts) ==
    LET T == Len(ts)
        vals(i) == {time_gap_to(ts[i], ts[j]) : j \in (i + 1)..T}
        positive(i) == {v \in vals(i) : v > 0}
        firsts == {Min(positive(i)) : i \in {k \in 1..T : positive(k) # {}}}
    IN  IF firsts = {} THEN 0 ELSE Min(firsts)

\* lines 358-369: compute_max_gap
compute_max_gap(ts) ==
    LET T == Len(ts)
        \* gap[tracklet1]: the gaps to the tracklets listed after it
        vals(i) == {time_gap_to(ts[i], ts[j]) : j \in (i + 1)..T}
        positive(i) == {v \in vals(i) : v > 0}
        firsts == {Min(positive(i)) : i \in {k \in 1..T : positive(k) # {}}}
    IN  IF firsts = {} THEN 0 ELSE Max(firsts)

\* lines 372-373: the gap build_graph works with; arg = 0 stands for a call
\* without max_gap (and for max_gap=0, which `not max_gap` treats alike).
EffectiveGap(ts, arg) ==
    IF arg = 0 THEN (3 * compute_max_gap(ts)) \div 2 ELSE arg

\* lines 395-402: the edge joining ts[i] and ts[j], i listed before j
TransitEdge(ts, i, j) ==
    IF Gt(ts[j], ts[i]) THEN <<NodeOut(i), NodeIn(j)>>
    ELSE <<NodeOut(j), NodeIn(i)>>

\* A gap test that lets tracklets sharing a frame, or interleaved, be joined.
WithinGapOrNot(ts, i, j, mg) == time_gap_to(ts[i], ts[j]) <= mg

\* lines 391-392: 0 < time_gap <= max_gap
WithinGap(ts, i, j, mg) ==
    LET time_gap == time_gap_to(ts[i], ts[j])
    IN  0 < time_gap /\ time_gap <= mg

\* lines 390-402: the transit edges.  Their weight (line 394) is computed
\* from coordinates the model does not carry; see capacity_scaling.
TransitEdges(ts, mg) ==
    {TransitEdge(ts, p[1], p[2]) :
        p \in {q \in (1..Len(ts)) \X (1..Len(ts)) :
                  q[1] < q[2] /\ WithinGap(ts, q[1], q[2], mg)}}

\* lines 380-388: the nodes and the unit-capacity edges of every tracklet
BaseNodes(ts) ==
    {Source, Sink} \cup {NodeIn(i) : i \in 1..Len(ts)}
                   \cup {NodeOut(i) : i \in 1..Len(ts)}

BaseEdges(ts) ==
    {<<NodeIn(i), NodeOut(i)>> : i \in 1..Len(ts)}
    \cup {<<Source, NodeIn(i)>> : i \in 1..Len(ts)}
    \cup {<<NodeOut(i), Sink>> : i \in 1..Len(ts)}

\* lines 371-402: self.G when build_graph returns or raises, and what it
\* raises: with no tracklet the unpacking of line 383 fails, with one
\* factorial(-1) of line 389 does, both as ValueError.
build_graph(ts, mg) ==
    IF Len(ts) = 0
    THEN [G |-> [nodes |-> {Source, Sink}, edges |-> {}], err |-> "ValueError"]
    ELSE IF Len(ts) = 1
    THEN [G |-> [nodes |-> BaseNodes(ts), edges |-> BaseEdges(ts)],
          err |-> "ValueError"]
    ELSE [G |-> [nodes |-> BaseNodes(ts),
                 edges |-> BaseEdges(ts) \cup TransitEdges(ts, mg)],
          err |-> "none"]

\* ------------------------------------------------------- the primary solve

\* The tracklets (by number) that have nodes in g, and its transit edges
Ids(g) == {m[2] : m \in {x \in g.nodes : x[1] = "in"}}
Transit(g) == {e \in g.edges : e[1][1] = "out" /\ e[2][1] = "in"}

\* lines 381-385: the demand attribute of a node
Demand(n, node) ==
    CASE node[1] = "source" -> 0 - n
      [] node[1] = "sink" -> n
      [] node[1] = "in" -> 1
      [] node[1] = "out" -> 0 - 1

InDeg(X, i) == Cardinality({e \in X : e[2] = NodeIn(i)})
OutDeg(X, i) == Cardinality({e \in X : e[1] = NodeOut(i)})

\* A flow is the set of edges that carry a unit (every capacity is 1).  It
\* satisfies the demands when at every node inflow - outflow = demand.
Balanced(g, n, f) ==
    /\ f \subseteq g.edges
    /\ \A node \in g.nodes :
          Cardinality({e \in f : e[2] = node})
            - Cardinality({e \in f : e[1] = node}) = Demand(n, node)

\* The only flow that can be balanced given its transit edges X and the
\* tracklets fv whose in->out edge carries a unit: the source and sink
\* edges are what the in and out nodes then still need.
FlowOf(g, X, fv) ==
    LET f(i) == IF i \in fv THEN 1 ELSE 0
    IN  X \cup {<<NodeIn(i), NodeOut(i)>> : i \in fv}
          \cup {<<Source, NodeIn(i)>> :
                    i \in {k \in Ids(g) : 1 + f(k) - InDeg(X, k) = 1}}
          \cup {<<NodeOut(i), Sink>> :
                    i \in {k \in Ids(g) : 1 + f(k) - OutDeg(X, k) = 1}}

FeasibleFlows(g, n) ==
    LET cands == UNION {
            {FlowOf(g, X, fv) :
                fv \in SUBSET {i \in Ids(g) : InDeg(X, i) >= 1 /\ OutDeg(X, i) >= 1}} :
            X \in {Y \in SUBSET Transit(g) :
                      \A i \in Ids(g) : InDeg(Y, i) <= 2 /\ OutDeg(Y, i) <= 2}}
    IN  {f \in cands : Balanced(g, n, f)}

\* line 409: nx.capacity_scaling(self.G), the flows it may return; none:
\* NetworkXUnfeasible.  It returns a feasible flow of least total weight.
\* The weights are non-negative integers (line 394) computed from
\* coordinates that the model does not carry, and every feasible flow is of
\* least weight under some: 0 on its own edges, positive on the others.
capacity_scaling(g, n) == FeasibleFlows(g, n)

\* The orders in which sorted(tracklets, key=start) may list a set: ties
\* keep the iteration order of the set, which is arbitrary.
RECURSIVE StartOrders(_, _)
StartOrders(ts, S) ==
    IF S = {} THEN {<<>>}
    ELSE LET firsts == {i \in S : \A j \in S : start(ts[i]) <= start(ts[j])}
         IN  UNION {{<<ts[i]>> \o o : o \in StartOrders(ts, S \ {i})} : i \in firsts}

\* The connected component of v in the undirected graph of edge list es
RECURSIVE Component(_, _)
Component(es, S) ==
    LET grown == S \cup {e[2] : e \in {x \in es : x[1] \in S}}
                   \cup {e[1] : e \in {x \in es : x[2] \in S}}
    IN  IF grown = S THEN S ELSE Component(es, grown)

\* Every way to pick one element of each set of a list of sets
RECURSIVE Product(_)
Product(sets) ==
    IF sets = <<>> THEN {<<>>}
    ELSE {<<x>> \o rest : x \in Head(sets), rest \in Product(Tail(sets))}

\* line 559: elif node in init
IsWholeTrack(f, i) == <<Source, NodeIn(i)>> \in f

\* lines 546-568: reconstruct_paths(), every list it may return for flow f.
\* An out node lists its successors in the order build_graph added them:
\* the sink, then the tracklets by number.
reconstruct_paths(ts, g, f) ==
    LET ids == Ids(g)
        targets(i) == {j \in ids : <<NodeOut(i), NodeIn(j)>> \in f}
        to_sink(i) == <<NodeOut(i), Sink>> \in f
        \* lines 553-564 for the out node of tracklet i
        single(i) == to_sink(i) /\ IsWholeTrack(f, i)
        edge(i) == ~single(i) /\ targets(i) # {}
        singles == SelectSeq([i \in 1..Len(ts) |-> i],
                             LAMBDA i : i \in ids /\ single(i))
        es == SelectSeq([i \in 1..Len(ts) |-> i],
                        LAMBDA i : i \in ids /\ edge(i))
        edges == [k \in 1..Len(es) |-> <<es[k], Min(targets(es[k]))>>]
        \* line 565: the nodes of nx.Graph(edges) in insertion order
        flat == [k \in 1..(2 * Len(edges)) |->
                    edges[(k + 1) \div 2][IF k % 2 = 1 THEN 1 ELSE 2]]
        eset == {edges[k] : k \in 1..Len(edges)}
        comp(k) == Component(eset, {flat[k]})
        \* line 567: a component is yielded when its first node is met
        heads == SelectSeq([k \in 1..Len(flat) |-> k],
                           LAMBDA k : \A l \in 1..(k - 1) : flat[l] \notin comp(k))
        comps == [k \in 1..Len(heads) |-> StartOrders(ts, comp(heads[k]))]
    IN  {[k \in 1..Len(singles) |-> <<ts[singles[k]]>>] \o p : p \in Product(comps)}

\* ------------------------------------------------------------ the fallback

Range(s) == {s[i] : i \in 1..Len(s)}

\* Every list of the elements of a set: list(a_set) may come in any order
RECURSIVE Lists(_)
Lists(S) ==
    IF S = {} THEN {<<>>}
    ELSE UNION {{<<x>> \o l : l \in Lists(S \ {x})} : x \in S}

\* lines 415-424: the graph without the source and sink edges of all but the
\* first and the last tracklets
Prune(g, ts, firsts, lasts) ==
    LET in_to_keep == {NodeIn(IndexOf(ts, t)) : t \in Range(firsts)}
        out_to_keep == {NodeOut(IndexOf(ts, t)) : t \in Range(lasts)}
        in_to_remove == {e[2] : e \in {x \in g.edges : x[1] = Source}} \ in_to_keep
        out_to_remove == {e[1] : e \in {x \in g.edges : x[2] = Sink}} \ out_to_keep
    IN  [nodes |-> g.nodes,
         edges |-> g.edges \ ({<<Source, m>> : m \in in_to_remove}
                              \cup {<<m, Sink>> : m \in out_to_remove})]

\* The source-to-sink paths of g, each as the list of the tracklets (by
\* number) it goes through: source, in, out, in, out, ..., sink.
RECURSIVE Extend(_, _)
Extend(g, c) ==
    LET last == c[Len(c)]
        next == {j \in Ids(g) \ Range(c) :
                    /\ <<NodeOut(last), NodeIn(j)>> \in g.edges
                    /\ <<NodeIn(j), NodeOut(j)>> \in g.edges}
    IN  (IF <<NodeOut(last), Sink>> \in g.edges THEN {c} ELSE {})
        \cup UNION {Extend(g, Append(c, j)) : j \in next}

Chains(g) ==
    UNION {Extend(g, <<i>>) :
              i \in {k \in Ids(g) : /\ <<Source, NodeIn(k)>> \in g.edges
                                    /\ <<NodeIn(k), NodeOut(k)>> \in g.edges}}

\* The sets of k pairwise node-disjoint paths
RECURSIVE Families(_, _)
Families(g, k) ==
    IF k = 0 THEN {{}}
    ELSE UNION {{F \cup {c} :
                    c \in {d \in Chains(g) \ F :
                              \A e \in F : Range(d) \cap Range(e) = {}}} :
                F \in Families(g, k - 1)}

\* The value of a maximum flow of unit node capacities
RECURSIVE MaxDisjoint(_, _)
MaxDisjoint(g, k) ==
    IF k = 0 THEN 0
    ELSE IF Families(g, k) # {} THEN k
    ELSE MaxDisjoint(g, k - 1)

\* lines 428-429: nx.node_disjoint_paths(G, 'source', 'sink', preflow_push,
\* n_tracks).  It computes a maximum flow (preflow_push takes no cutoff),
\* reads the paths off it and stops after `cutoff` of them: the sets of
\* paths it may yield.  None when the flow is 0: it raises NetworkXNoPath.
node_disjoint_paths(g, cutoff) ==
    LET most == MaxDisjoint(g, Cardinality(Ids(g)))
        k == IF cutoff < most THEN cutoff ELSE most
    IN  IF most = 0 THEN {}
        ELSE UNION {{F \in SUBSET M : Cardinality(F) = k} : M \in Families(g, most)}

\* lines 431-432: self.G.remove_node(node) for the nodes of the paths found
RemoveNodes(g, ids) ==
    LET gone == {NodeIn(i) : i \in ids} \cup {NodeOut(i) : i \in ids}
    IN  [nodes |-> g.nodes \ gone,
         edges |-> {e \in g.edges : e[1] \notin gone /\ e[2] \notin gone}]

\* combinations(seq, 2), in its lexicographic order
Combinations2(seq) ==
    LET n == Len(seq)
        pairs == {p \in (1..n) \X (1..n) : p[1] < p[2]}
        any == CHOOSE l \in Lists(pairs) : TRUE
        ordered == sorted(any, [k \in 1..Len(any) |-> (any[k][1] - 1) * n + any[k][2]])
    IN  [k \in 1..Len(ordered) |-> <<seq[ordered[k][1]], seq[ordered[k][2]]>>]

\* int 0, what sum([]) is: the value with no frame and no record of its own
Zero == [inds |-> <<>>, data |-> <<>>]

\* sum(path): 0 + t is t (lines 38-41), then __add__ from left to right
RECURSIVE Sum(_)
Sum(path) ==
    IF path = <<>> THEN Zero
    ELSE IF Len(path) = 1 THEN path[1]
    ELSE Add(Sum(SubSeq(path, 1, Len(path) - 1)), path[Len(path)])

\* lines 440-458: the loop over the pairs of leftovers, from pair number k
\* on, with `nodes` and the residuals appended so far.  Which hypothesis is
\* the smoother (line 453) depends on coordinates: either may be.  Removing
\* a tracklet that an earlier pair has dropped raises KeyError (line 444 or
\* 445).
RECURSIVE resolve_overlaps(_, _, _, _)
resolve_overlaps(pairs, k, nodes, appended) ==
    IF k > Len(pairs)
    THEN {[nodes |-> nodes, appended |-> appended, fault |-> "none"]}
    ELSE LET t1 == pairs[k][1]
             t2 == pairs[k][2]
         IN  IF ~In(t1, t2)
             THEN resolve_overlaps(pairs, k + 1, nodes, appended)
             ELSE IF t1 \notin nodes \/ t2 \notin nodes
             THEN {[nodes |-> nodes \ {t1}, appended |-> appended,
                    fault |-> "KeyError"]}
             ELSE resolve_overlaps(pairs, k + 1, nodes \ {t2},
                                   Append(appended, t2))
                  \cup resolve_overlaps(pairs, k + 1, nodes \ {t1},
                                        Append(appended, t1))

\* lines 436-459: the path of the leftovers, from any iteration order of
\* the set `nodes`
leftover_path(nodes) ==
    UNION {resolve_overlaps(Combinations2(order), 1, nodes, <<>>) :
              order \in Lists(nodes)}

\* lines 430-434: the paths found, each as list(a set of tracklets), in any
\* order of yield
found_paths(ts, F) ==
    UNION {Product([k \in 1..Len(o) |-> Lists({ts[i] : i \in Range(o[k])})]) :
              o \in Lists(F)}

\* lines 435-462 after the search has yielded the paths of F
complete(g2, ts, F, n) ==
    LET k == Cardinality(F)
        out(p, a, fault) ==
            [G |-> g2, paths |-> p, appended |-> a, found |-> k, fault |-> fault]
    IN  IF n - k > 1
        THEN {out(None, <<>>, "NotImplementedError")}
        ELSE IF n - k = 1
        THEN UNION {
               IF r.fault # "none"
               THEN {out(None, r.appended, r.fault)}
               ELSE {out(Append(pl[1], pl[2]), r.appended, "none") :
                        pl \in found_paths(ts, F) \X Lists(r.nodes)} :
               r \in leftover_path({ts[i] : i \in Ids(g2)})}
        ELSE {out(p, <<>>, "none") : p \in found_paths(ts, F)}

\* lines 411-462: what the handler of NetworkXUnfeasible may leave behind:
\* self.G, self.paths (None if it raised), the residuals it appended, the
\* number of paths the search found and the exception it raised.
fallback(g, ts, firsts, lasts, n) ==
    LET pruned == Prune(g, ts, firsts, lasts)
        found == node_disjoint_paths(pruned, n)
    IN  IF found = {}
        THEN {[G |-> pruned, paths |-> None, appended |-> <<>>, found |-> 0,
               fault |-> "NetworkXNoPath"]}
        ELSE UNION {complete(RemoveNodes(pruned, UNION {Range(c) : c \in F}),
                             ts, F, n) : F \in found}

\* ------------------------------------------------------- _finalize_tracks

\* A residual fits the tracks it lies wholly before or after.
easy_fit_by_span(residual, trs) ==
    {k \in 1..Len(trs) : Lt(residual, trs[k]) \/ Gt(residual, trs[k])}

\* lines 472-473: easy_fit, as the positions of the tracks the residual fits
easy_fit(residual, trs) ==
    {k \in 1..Len(trs) : ~In(residual, trs[k])}

\* line 479: inds[np.argmin(dist)] over the candidates in track order: the
\* first of the least
argmin(inds, dist) ==
    Min({k \in inds : \A l \in inds : dist[k] <= dist[l]})

\* The values distance_to (lines 125-133) may take: computed from
\* coordinates, which the model does not carry
Dists == 0..MaxDist

\* lines 470-480: the loop from the residuals still in `rs` (popped from its
\* end), with the log of the steps made
RECURSIVE incorporate(_, _, _)
incorporate(trs, rs, log) ==
    IF rs = <<>> THEN {[tracks |-> trs, log |-> log, err |-> "none"]}
    ELSE LET residual == rs[Len(rs)]
             rest == SubSeq(rs, 1, Len(rs) - 1)
         IN  IF \E k \in 1..Len(trs) : trs[k] = Zero
             \* `residual not in 0`
             THEN {[tracks |-> None, log |-> log, err |-> "TypeError"]}
             ELSE LET inds == easy_fit(residual, trs)
                      step(d, ind) ==
                          [residual |-> residual, before |-> trs,
                           inds |-> inds, dist |-> d, ind |-> ind]
                      plus(ind) == [trs EXCEPT ![ind] = Add(trs[ind], residual)]
                  IN  IF inds = {}
                      THEN incorporate(trs, rest, Append(log, step(<<>>, 0)))
                      ELSE IF Cardinality(inds) = 1
                      THEN incorporate(plus(Min(inds)), rest,
                                       Append(log, step(<<>>, Min(inds))))
                      ELSE UNION {
                             incorporate(plus(argmin(inds, d)), rest,
                                         Append(log, step(d, argmin(inds, d)))) :
                             d \in [inds -> Dists]}

\* The residuals in the order of the pool.
residuals_as_listed(rs) == rs

\* line 469: sorted(self.residuals, key=len), a new list
residuals_by_len(rs) == sorted(rs, [i \in 1..Len(rs) |-> len(rs[i])])

\* lines 466-481: self.tracks, the steps of the loop and what is raised;
\* self.paths is None when the solve raised: iterating it is a TypeError
finalize_tracks(ps, rs) ==
    IF ps = None THEN {[tracks |-> None, log |-> <<>>, err |-> "TypeError"]}
    ELSE incorporate([k \in 1..Len(ps) |-> Sum(ps[k])],
                     residuals_by_len(rs), <<>>)

\* ------------------------------------------------------------ write_tracks

\* A cell of the table that no track wrote
NaN == <<0, 0>>

\* line 484: self.tracks is None.  Below, the test left out.
TracksNeverMissing(trs) == FALSE

TracksMissing(trs) == trs = None

\* lines 495-498: the table, or the exception of line 497 for the first
\* track that cannot be written: the int 0 has no .data (AttributeError), a
\* frame index from n_frames on is out of bounds (IndexError), a track
\* beyond the n_tracks-th has no columns to go to (ValueError).  Of two
\* records of one track for one frame the later one stays.
write_tracks(trs, nf, n) ==
    LET out_of_bounds(k) == \E i \in 1..len(trs[k]) : trs[k].inds[i] >= nf
        bad == {k \in 1..Len(trs) :
                   trs[k] = Zero \/ out_of_bounds(k) \/ k > n}
        at(k, f) == {i \in 1..len(trs[k]) : trs[k].inds[i] = f}
        cell == [c \in (0..(nf - 1)) \X (1..n) |->
                    IF c[2] <= Len(trs) /\ at(c[2], c[1]) # {}
                    THEN trs[c[2]].data[Max(at(c[2], c[1]))]
                    ELSE NaN]
        k0 == Min(bad)
    IN  IF bad = {}
        THEN {[table |-> [n_rows |-> nf, cell |-> cell], err |-> "none"]}
        ELSE IF trs[k0] = Zero THEN {[table |-> NoTable, err |-> "AttributeError"]}
        ELSE {[table |-> NoTable, err |-> "IndexError"] : x \in {1} \cap
                  {IF out_of_bounds(k0) THEN 1 ELSE 0}}
             \cup {[table |-> NoTable, err |-> "ValueError"] : x \in {1} \cap
                      {IF k0 > n THEN 1 ELSE 0}}

\* ------------------------------------------------------------------- Spec

\* What a call raised
NoError == [type |-> "none", names |-> ""]
Error(type) == [type |-> type, names |-> ""]
\* lines 406 and 485: ValueError with a message that names a step
PreconditionError(step) == [type |-> "ValueError", names |-> step]
Raised(type) == IF type = "none" THEN NoError ELSE Error(type)

\* The pickles: 1..MaxFragments fragments of the Catalogue
Inputs == UNION {[1..k -> Catalogue] : k \in 1..MaxFragments}

\* SpecTracklet does not run: its variables rest
TIdle ==
    /\ raw = Unset
    /\ built = Unset
    /\ other = Unset
    /\ result = <<>>
    /\ top = "idle"

\* TrackletStitcher(pickle_file, n_tracks, min_length=MinLength,
\* split_tracklets), lines 288-339
Init ==
    /\ TIdle
    /\ \E frags \in Inputs, n \in 2..MaxTracks, split_tracklets \in BOOLEAN :
          LET c == Construct(frags, n, MinLength, split_tracklets)
          IN  /\ Len(c.tracklets) <= MaxTracklets
              /\ Len(c.residuals) <= MaxResiduals
              /\ n_tracks = n
              /\ tracklets = c.tracklets
              /\ residuals = c.residuals
              /\ n_frames = c.n_frames
              /\ first_tracklets = c.first_tracklets
              /\ last_tracklets = c.last_tracklets
    /\ G = NoGraph
    /\ flow = {}
    /\ paths = None
    /\ tracks = None
    /\ pc = "constructed"
    /\ op = "init"
    /\ err = NoError
    /\ table = NoTable
    /\ max_gap = [arg |-> 0, gap |-> 0]
    /\ solve = [mode |-> "none", found |-> 0, fault |-> "none"]
    /\ fin_log = <<>>

\* build_graph(max_gap=arg), lines 371-402
BuildGraph ==
    /\ pc = "constructed"
    /\ \E arg \in 0..MaxGapArg :
          LET mg == EffectiveGap(tracklets, arg)
              b == build_graph(tracklets, mg)
          IN  /\ G' = b.G
              /\ max_gap' = [arg |-> arg, gap |-> mg]
              /\ err' = Raised(b.err)
              /\ pc' = IF b.err = "none" THEN "graph_built" ELSE "build_failed"
    /\ op' = "build_graph"
    /\ UNCHANGED <<tvars, n_tracks, tracklets, residuals, n_frames,
                   first_tracklets, last_tracklets, flow, paths, tracks,
                   table, solve, fin_log>>

\* line 405: self.G is None
GraphMissing(g) == g = NoGraph

\* lines 463-464 and what stitch leaves to its caller: _finalize_tracks runs
\* whatever the solve did, and what it raises replaces what the solve raised
Finally(fault) ==
    \E o \in finalize_tracks(paths', residuals') :
        /\ tracks' = IF o.err = "none" THEN o.tracks ELSE tracks
        /\ fin_log' = o.log
        /\ err' = IF o.err # "none" THEN Error(o.err) ELSE Raised(fault)
        /\ pc' = IF o.err = "none" /\ fault = "none"
                 THEN "stitched" ELSE "stitch_failed"

\* stitch(), lines 404-464
Stitch ==
    /\ op' = "stitch"
    /\ \/ /\ pc = "constructed"
          /\ GraphMissing(G)
          /\ err' = PreconditionError("build_graph")
          /\ UNCHANGED <<G, flow, paths, tracks, residuals, pc, solve, fin_log>>
       \/ /\ pc = "graph_built"
          /\ ~GraphMissing(G)
          /\ capacity_scaling(G, n_tracks) # {}
          /\ \E f \in capacity_scaling(G, n_tracks) :
                /\ flow' = f
                /\ paths' \in reconstruct_paths(tracklets, G, f)
          /\ solve' = [mode |-> "primary", found |-> Len(paths'),
                       fault |-> "none"]
          /\ UNCHANGED <<G, residuals>>
          /\ Finally("none")
       \/ /\ pc = "graph_built"
          /\ ~GraphMissing(G)
          /\ capacity_scaling(G, n_tracks) = {}
          /\ \E r \in fallback(G, tracklets, first_tracklets, last_tracklets,
                               n_tracks) :
                /\ G' = r.G
                /\ paths' = r.paths
                /\ residuals' = residuals \o r.appended
                /\ solve' = [mode |-> "fallback", found |-> r.found,
                             fault |-> r.fault]
                /\ Finally(r.fault)
          /\ UNCHANGED flow
    /\ UNCHANGED <<tvars, n_tracks, tracklets, n_frames, first_tracklets,
                   last_tracklets, table, max_gap>>

\* write_tracks(), lines 483-501
WriteTracks ==
    /\ op' = "write_tracks"
    /\ IF TracksMissing(tracks)
       THEN /\ err' = PreconditionError("stitch")
            /\ UNCHANGED table
       ELSE \E w \in write_tracks(tracks, n_frames, n_tracks) :
               /\ err' = Raised(w.err)
               /\ table' = IF w.err = "none" THEN w.table ELSE table
    /\ UNCHANGED <<tvars, n_tracks, tracklets, residuals, n_frames,
                   first_tracklets, last_tracklets, G, flow, paths, tracks,
                   pc, max_gap, solve, fin_log>>

Next == BuildGraph \/ Stitch \/ WriteTracks

Spec == Init /\ [][Next]_vars

\* -------------------------------------------------------------- SpecCrowd

\* Recordings with more animals in view than a fragment can follow: one
\* fragment more than in Spec, each of them the first run of three frames,
\* the second, the two of them and the third in one fragment with gaps, or a
\* fragment of three frames out of order whose pieces, when split, are a
\* pair of frames and a single frame.
Crowd ==
    { Labelled(<<0, 1, 2>>),
      Labelled(<<4, 5, 6>>),
      Labelled(<<0, 1, 2, 4, 5, 6, 8, 9, 10>>),
      Labelled(<<5, 1, 2>>) }

CrowdInputs == [1..(MaxFragments + 1) -> Crowd]

\* TrackletStitcher(pickle_file, n_tracks, min_length=MinLength,
\* split_tracklets), lines 288-339, on the pickles of CrowdInputs
InitCrowd ==
    /\ TIdle
    /\ \E frags \in CrowdInputs, n \in 2..MaxTracks, split_tracklets \in BOOLEAN :
          LET c == Construct(frags, n, MinLength, split_tracklets)
          IN  /\ Len(c.tracklets) <= MaxTracklets
              /\ Len(c.residuals) <= MaxResiduals
              /\ n_tracks = n
              /\ tracklets = c.tracklets
              /\ residuals = c.residuals
              /\ n_frames = c.n_frames
              /\ first_tracklets = c.first_tracklets
              /\ last_tracklets = c.last_tracklets
    /\ G = NoGraph
    /\ flow = {}
    /\ paths = None
    /\ tracks = None
    /\ pc = "constructed"
    /\ op = "init"
    /\ err = NoError
    /\ table = NoTable
    /\ max_gap = [arg |-> 0, gap |-> 0]
    /\ solve = [mode |-> "none", found |-> 0, fault |-> "none"]
    /\ fin_log = <<>>

SpecCrowd == InitCrowd /\ [][Next]_vars

\* -------------------------------------------------------- SpecTracklet

\* Index sequences of length 1..MaxLen over 0..MaxInd, in any order, with
\* duplicates.
IndexSeqs == UNION {[1..n -> 0..MaxInd] : n \in 1..MaxLen}

\* The records of an input are told apart by their position in it; the
\* right operand of a merge gets records numbered from `base` + 1.
Records(n, base) == [i \in 1..n |-> base + i]

\* Spec does not run: the fields of the stitcher rest
SIdle ==
    /\ n_tracks = 0
    /\ tracklets = <<>>
    /\ residuals = <<>>
    /\ n_frames = 0
    /\ first_tracklets = <<>>
    /\ last_tracklets = <<>>
    /\ G = NoGraph
    /\ flow = {}
    /\ paths = None
    /\ tracks = None
    /\ pc = "idle"
    /\ op = "idle"
    /\ err = NoError
    /\ table = NoTable
    /\ max_gap = [arg |-> 0, gap |-> 0]
    /\ solve = [mode |-> "none", found |-> 0, fault |-> "none"]
    /\ fin_log = <<>>

TInit ==
    /\ SIdle
    /\ \E inds \in IndexSeqs : raw = [inds |-> inds, data |-> Records(Len(inds), 0)]
    /\ built = Unset
    /\ other = Unset
    /\ result = <<>>
    /\ top = "input"

\* Tracklet(data, inds)
TNew ==
    /\ top = "input"
    /\ built' = Tracklet(raw.data, raw.inds)
    /\ result' = <<built'>>
    /\ top' = "new"
    /\ UNCHANGED <<raw, other, svars>>

\* built + Tracklet(data2, inds2)
TAdd ==
    /\ top = "new"
    /\ \E inds \in IndexSeqs :
           other' = Tracklet(Records(Len(inds), MaxLen), inds)
    /\ result' = <<Add(built, other')>>
    /\ top' = "add"
    /\ UNCHANGED <<raw, built, svars>>

\* TrackletStitcher.split_tracklet(built)
TSplit ==
    /\ top = "new"
    /\ result' = split_tracklet(built)
    /\ top' = "split"
    /\ UNCHANGED <<raw, built, other, svars>>

TNext == TNew \/ TAdd \/ TSplit

SpecTracklet == TInit /\ [][TNext]_vars

\* ------------------------------------------------------------- properties

\* The frames and the records of a Tracklet, and the spans of two in time
Frames(t) == {t.inds[i] : i \in 1..Len(t.inds)}
RecordsOf(t) == {t.data[i] : i \in 1..Len(t.data)}
Precedes(a, b) == a.inds[Len(a.inds)] < b.inds[1]
NonDecreasing(s) == \A i \in 1..(Len(s) - 1) : s[i] <= s[i + 1]
StrictlyIncreasing(s) == \A i \in 1..(Len(s) - 1) : s[i] < s[i + 1]
Consecutive(s) == \A i \in 1..(Len(s) - 1) : s[i + 1] = s[i] + 1
RECURSIVE Flatten(_)
Flatten(ss) == IF ss = <<>> THEN <<>> ELSE Head(ss) \o Flatten(Tail(ss))

\* C1: stitch before build_graph raises the precondition error that names
\* build_graph, write_tracks before a stitch that recorded tracks raises the
\* one that names stitch, and either call leaves the graph, the paths, the
\* tracks and the residuals as they were.
C1_OutOfOrderCallsAreRejected ==
    [][/\ (op' = "stitch" /\ pc = "constructed")
            => /\ err'.type = "ValueError"
               /\ err'.names = "build_graph"
               /\ UNCHANGED <<G, paths, tracks, residuals>>
       /\ (op' = "write_tracks" /\ pc \in {"constructed", "graph_built",
                                           "build_failed"})
            => /\ err'.type = "ValueError"
               /\ err'.names = "stitch"
               /\ table' = NoTable
               /\ UNCHANGED <<G, paths, tracks, residuals>>]_vars

C1_Witness ==
    /\ op = "stitch"
    /\ pc = "constructed"
    /\ err.names = "build_graph"
    /\ tracklets # <<>>

\* C2: when the flow problem is feasible, stitch leaves exactly n_tracks
\* paths, no tracklet in two of them (nor twice in one), every tracklet of
\* the graph in one of them.
C2_FeasibleFlowYieldsDisjointCover ==
    solve.mode = "primary" =>
        /\ Len(paths) = n_tracks
        /\ \A k \in 1..Len(paths) :
              /\ \A l \in 1..Len(paths) :
                    k # l => Range(paths[k]) \cap Range(paths[l]) = {}
              /\ Cardinality(Range(paths[k])) = Len(paths[k])
        /\ UNION {Range(paths[k]) : k \in 1..Len(paths)} = Range(tracklets)

\* C3: when the flow problem is infeasible and the fallback's search finds
\* at least n_tracks - 1 paths, stitch returns and has recorded n_tracks
\* tracks, each with at least one frame.
C3_FallbackCompletes ==
    (solve.mode = "fallback" /\ n_tracks - solve.found <= 1) =>
        /\ pc = "stitched"
        /\ Len(tracks) = n_tracks
        /\ \A k \in 1..Len(tracks) : tracks[k].inds # <<>>

\* C4: when the fallback's search finds fewer than n_tracks - 1 paths, what
\* stitch raises to its caller is NotImplementedError, and no tracks are
\* recorded.
C4_TooFewPathsIsNotImplemented ==
    (solve.mode = "fallback" /\ solve.found < n_tracks - 1 /\ op = "stitch") =>
        /\ err.type = "NotImplementedError"
        /\ tracks = None

\* C5: at every step of the finalization the residual is eligible for
\* exactly the tracks, as they stand at that step, with which it shares no
\* frame; with one eligible track it is attached to it, with several to one
\* of least distance, with none it is dropped and the tracks stay as they
\* are.  The tracks of the first step are the sums of the paths, those of a
\* later step the ones the step before left, those recorded the ones the
\* last step left.
C5_ResidualsGoToATrackTheyShareNoFrameWith ==
    \A s \in 1..Len(fin_log) :
        LET st == fin_log[s]
            now == st.before
            after == IF s < Len(fin_log) THEN fin_log[s + 1].before ELSE tracks
            E == {k \in 1..Len(now) : Frames(st.residual) \cap Frames(now[k]) = {}}
        IN  /\ st.inds = E
            /\ s = 1 => \A k \in 1..Len(now) :
                            Frames(now[k]) = UNION {Frames(t) : t \in Range(paths[k])}
            /\ Len(after) = Len(now)
            /\ E = {} => st.ind = 0 /\ after = now
            /\ E # {} =>
                  /\ st.ind \in E
                  /\ Cardinality(E) >= 2 =>
                        \A l \in E : st.dist[st.ind] <= st.dist[l]
                  /\ \A k \in 1..Len(now) :
                        IF k = st.ind
                        THEN /\ Frames(after[k]) = Frames(now[k]) \cup Frames(st.residual)
                             /\ RecordsOf(after[k]) = RecordsOf(now[k]) \cup RecordsOf(st.residual)
                             /\ Len(after[k].inds) = Len(now[k].inds) + Len(st.residual.inds)
                        ELSE after[k] = now[k]

\* A finalization in which a residual lying inside the span of a track was
\* eligible for it and attached to it, a residual had several eligible
\* tracks of different distances, and a residual was dropped.
C5_Witness ==
    /\ pc = "stitched"
    /\ \E s \in 1..Len(fin_log) :
          LET k == fin_log[s].ind
          IN  /\ k \in fin_log[s].inds
              /\ fin_log[s].before[k].inds[1] < fin_log[s].residual.inds[1]
              /\ fin_log[s].residual.inds[1] < end(fin_log[s].before[k])
    /\ \E s \in 1..Len(fin_log) :
          /\ Cardinality(fin_log[s].inds) >= 2
          /\ \E k, l \in fin_log[s].inds : fin_log[s].dist[k] < fin_log[s].dist[l]
    /\ \E s \in 1..Len(fin_log) : fin_log[s].inds = {}

\* C6: write_tracks after a stitch that returned hands over a table of
\* n_frames rows in which every frame of every track is a row, the cell of
\* frame f and individual k holds the record of track k for f, and every
\* other cell is NaN.
C6_TableHoldsEveryTrack ==
    (op = "write_tracks" /\ pc = "stitched") =>
        /\ err.type = "none"
        /\ table.n_rows = n_frames
        /\ \A k \in 1..Len(tracks) : Frames(tracks[k]) \subseteq 0..(n_frames - 1)
        /\ \A f \in 0..(n_frames - 1), k \in 1..n_tracks :
              IF k <= Len(tracks) /\ f \in Frames(tracks[k])
              THEN \E i \in 1..Len(tracks[k].inds) :
                      /\ tracks[k].inds[i] = f
                      /\ table.cell[<<f, k>>] = tracks[k].data[i]
              ELSE table.cell[<<f, k>>] = NaN

\* The Tracklet that Tracklet(...) or __add__ returned, and the indices and
\* records it was made from
Made == result[1]
GivenInds == IF top = "add" THEN built.inds \o other.inds ELSE raw.inds
GivenData == IF top = "add" THEN built.data \o other.data ELSE raw.data
Given(d) == CHOOSE i \in 1..Len(GivenData) : GivenData[i] = d

\* Records stay with their index, none is lost or made up, and records of
\* one index keep the order they were given in.
PairedAndStable ==
    /\ Len(Made.inds) = Len(GivenInds)
    /\ Len(Made.data) = Len(GivenData)
    /\ RecordsOf(Made) = {GivenData[i] : i \in 1..Len(GivenData)}
    /\ \A k \in 1..Len(Made.inds) : Made.inds[k] = GivenInds[Given(Made.data[k])]
    /\ \A k, l \in 1..Len(Made.inds) :
          (k < l /\ Made.inds[k] = Made.inds[l])
              => Given(Made.data[k]) < Given(Made.data[l])

\* C7 as stated: the indices of a constructed or merged Tracklet are
\* strictly increasing, records paired and ties in the given order.
C7_StrictlyIncreasing ==
    top \in {"new", "add"} => StrictlyIncreasing(Made.inds) /\ PairedAndStable

\* C7: the indices of a constructed or merged Tracklet are non-decreasing
\* (no index is removed: as many as were given), strictly increasing when
\* the given indices are distinct; records stay paired with their index and
\* records of equal index keep the order they were given in.
C7_SortedPairedStable ==
    top \in {"new", "add"} =>
        /\ NonDecreasing(Made.inds)
        /\ PairedAndStable
        /\ (Cardinality({GivenInds[i] : i \in 1..Len(GivenInds)}) = Len(GivenInds))
              => StrictlyIncreasing(Made.inds)

\* A merge of two tracklets that share a frame, the second listed before
\* the first in time
C7_Witness ==
    /\ top = "add"
    /\ \E k \in 1..(Len(Made.inds) - 1) : Made.inds[k] = Made.inds[k + 1]
    /\ ~NonDecreasing(GivenInds)

\* C8: the pieces of a split non-continuous tracklet, in list order, hold
\* the tracklet's indices and records one after the other, and each piece is
\* a run of consecutive frames: end - start + 1 = length.
C8_SplitPiecesRebuildTheTracklet ==
    (top = "split" /\ built.inds[Len(built.inds)] - built.inds[1] + 1 # Len(built.inds)) =>
        /\ Flatten([k \in 1..Len(result) |-> result[k].inds]) = built.inds
        /\ Flatten([k \in 1..Len(result) |-> result[k].data]) = built.data
        /\ \A k \in 1..Len(result) :
              /\ result[k].inds # <<>>
              /\ Len(result[k].inds) = Len(result[k].data)
              /\ Consecutive(result[k].inds)
              /\ result[k].inds[Len(result[k].inds)] - result[k].inds[1] + 1
                    = Len(result[k].inds)

\* A tracklet with a repeated frame and a gap, split in three
C8_Witness ==
    /\ top = "split"
    /\ built.inds[Len(built.inds)] - built.inds[1] + 1 # Len(built.inds)
    /\ Len(result) >= 3
    /\ ~StrictlyIncreasing(built.inds)

\* The transit edge from the exit of tracklet i to the entry of tracklet j
HasEdge(i, j) == <<<<"out", i>>, <<"in", j>>>> \in G.edges
Apart(i, j) ==
    Precedes(tracklets[i], tracklets[j]) \/ Precedes(tracklets[j], tracklets[i])
GapBetween(i, j) ==
    IF Precedes(tracklets[i], tracklets[j])
    THEN tracklets[j].inds[1] - end(tracklets[i])
    ELSE tracklets[i].inds[1] - end(tracklets[j])

\* C9 as stated: after build_graph with the default gap every tracklet has
\* a transit edge out of its exit.
C9_EveryTrackletHasAnOutgoingEdge ==
    (pc = "graph_built" /\ max_gap.arg = 0) =>
        \A i \in 1..Len(tracklets) :
            \E j \in 1..Len(tracklets) : j # i /\ HasEdge(i, j)

\* C9: after build_graph with the default gap, every tracklet that lies
\* wholly before or after some tracklet listed after it is joined by a
\* transit edge, in the direction of time, to each nearest of those.
C9_NearestLaterListedIsJoined ==
    (pc = "graph_built" /\ max_gap.arg = 0) =>
        \A i \in 1..Len(tracklets) :
            \A j \in (i + 1)..Len(tracklets) :
                (/\ Apart(i, j)
                 /\ \A l \in (i + 1)..Len(tracklets) :
                        Apart(i, l) => GapBetween(i, j) <= GapBetween(i, l))
                    => IF Precedes(tracklets[i], tracklets[j])
                       THEN HasEdge(i, j) ELSE HasEdge(j, i)

\* A graph built with the default gap in which a tracklet has its nearest
\* later-listed tracklet further than another has, and a tracklet has no
\* edge out of its exit
C9_Witness ==
    /\ pc = "graph_built"
    /\ max_gap.arg = 0
    /\ \E i, j, k, l \in 1..Len(tracklets) :
          /\ i < j /\ k < l /\ Apart(i, j) /\ Apart(k, l)
          /\ \A m \in (i + 1)..Len(tracklets) :
                Apart(i, m) => GapBetween(i, j) <= GapBetween(i, m)
          /\ \A m \in (k + 1)..Len(tracklets) :
                Apart(k, m) => GapBetween(k, l) <= GapBetween(k, m)
          /\ GapBetween(i, j) < GapBetween(k, l)
    /\ \E i \in 1..Len(tracklets) : \A j \in 1..Len(tracklets) : ~HasEdge(i, j)

\* C10: after build_graph with gap g there is a transit edge from the exit
\* of i to the entry of j exactly when i ends before j starts, by at most g
\* frames; so every edge points forward in time, joins no two tracklets
\* that share a frame or interleave, and the successors of a tracklet all
\* start after it ends (no cycle).
C10_EdgeIffPrecedesWithinGap ==
    pc = "graph_built" =>
        /\ \A i, j \in 1..Len(tracklets) :
              HasEdge(i, j) <=>
                  /\ end(tracklets[i]) < tracklets[j].inds[1]
                  /\ tracklets[j].inds[1] - end(tracklets[i]) <= max_gap.gap
        /\ \A e \in G.edges :
              (e[1][1] = "out" /\ e[2][1] = "in") =>
                  /\ e[1][2] \in 1..Len(tracklets)
                  /\ e[2][2] \in 1..Len(tracklets)
                  /\ tracklets[e[1][2]].inds[1] < tracklets[e[2][2]].inds[1]
                  /\ Frames(tracklets[e[1][2]]) \cap Frames(tracklets[e[2][2]]) = {}

\* A graph with a transit edge, a pair that interleaves without sharing a
\* frame, and a pair too far apart
C10_Witness ==
    /\ pc = "graph_built"
    /\ \E i, j \in 1..Len(tracklets) : HasEdge(i, j)
    /\ \E i, j \in 1..Len(tracklets) :
          /\ i # j
          /\ Frames(tracklets[i]) \cap Frames(tracklets[j]) = {}
          /\ ~Apart(i, j)
    /\ \E i, j \in 1..Len(tracklets) :
          Precedes(tracklets[i], tracklets[j]) /\ GapBetween(i, j) > max_gap.gap

\* The leftovers of the fallback (the tracklets whose nodes the search left
\* in the graph), the last path (none when the step raised) and how often a
\* tracklet is in the residual pool
Leftovers == {tracklets[i] : i \in Ids(G)}
LastPath == IF paths = None THEN {} ELSE Range(paths[Len(paths)])
TimesInPool(t) == Cardinality({i \in 1..Len(residuals) : residuals[i] = t})
OneMissing == solve.mode = "fallback" /\ n_tracks - solve.found = 1

\* C11: in the fallback with one path missing, of every two leftovers that
\* share a frame exactly one is in the last path and the other is in the
\* residual pool once; when the step has completed no two tracklets of the
\* last path share a frame and every leftover is in the last path or in the
\* pool, never in both.
C11_OverlappingLeftoversAreSettled ==
    OneMissing =>
        /\ \A a, b \in Leftovers :
              (a # b /\ Frames(a) \cap Frames(b) # {}) =>
                  \/ a \in LastPath /\ b \notin LastPath /\ TimesInPool(b) = 1
                  \/ b \in LastPath /\ a \notin LastPath /\ TimesInPool(a) = 1
        /\ solve.fault = "none" =>
              /\ \A a, b \in LastPath : a # b => Frames(a) \cap Frames(b) = {}
              /\ \A a \in Leftovers : (a \in LastPath) # (TimesInPool(a) >= 1)

\* C12: a finalization that completes takes every residual of the pool once,
\* never a residual after a strictly shorter one, and leaves the pool as the
\* solve left it: as it was before stitch, followed by the leftovers the
\* fallback rejected (none after the primary solve).
C12_LongestResidualsFirst ==
    [][(op' = "stitch" /\ pc' = "stitched") =>
          /\ Len(fin_log') = Len(residuals')
          /\ \A i \in 1..Len(residuals') :
                Cardinality({s \in 1..Len(fin_log') :
                                fin_log'[s].residual = residuals'[i]}) = 1
          /\ \A s, t \in 1..Len(fin_log') :
                s < t => Len(fin_log'[s].residual.inds)
                            >= Len(fin_log'[t].residual.inds)
          /\ Len(residuals') >= Len(residuals)
          /\ SubSeq(residuals', 1, Len(residuals)) = residuals
          /\ \A i \in (Len(residuals) + 1)..Len(residuals') :
                residuals'[i] \in Range(tracklets)
          /\ solve'.mode = "primary" => residuals' = residuals]_vars

\* A finalization after the fallback over a pool that lists a longer
\* residual before a shorter one and ends with a leftover the fallback
\* rejected
C12_Witness ==
    /\ pc = "stitched"
    /\ op = "stitch"
    /\ solve.mode = "fallback"
    /\ Len(fin_log) >= 3
    /\ \E i, j \in 1..Len(residuals) :
          i < j /\ Len(residuals[i].inds) > Len(residuals[j].inds)
    /\ residuals[Len(residuals)] \in Range(tracklets)

\* How many times a tracklet is listed in the paths
TimesInPaths(t) ==
    Cardinality({p \in (1..Len(paths)) \X (1..MaxTracklets) :
                    p[2] <= Len(paths[p[1]]) /\ paths[p[1]][p[2]] = t})

\* C13: when stitch has returned, by the primary solve or by the fallback,
\* every tracklet of the graph is listed once in the paths and is not in the
\* residual pool, or is in the residual pool and in no path.
C13_NoTrackletIsLost ==
    (pc = "stitched" /\ op = "stitch") =>
        \A i \in 1..Len(tracklets) :
            \/ /\ TimesInPaths(tracklets[i]) = 1
               /\ TimesInPool(tracklets[i]) = 0
            \/ /\ TimesInPaths(tracklets[i]) = 0
               /\ TimesInPool(tracklets[i]) >= 1

\* The tracks at every point of a finalization: before each residual is
\* taken, and as recorded
TracksOverTime == {fin_log[s].before : s \in 1..Len(fin_log)} \cup {tracks}

\* C14: when every tracklet and every residual has distinct frame indices
\* and stitch has returned, every track has strictly increasing frame
\* indices at every point of the finalization, and the tracklets of a path
\* share no frame.
C14_TracksHaveDistinctFrames ==
    (/\ pc = "stitched"
     /\ op = "stitch"
     /\ \A i \in 1..Len(tracklets) : StrictlyIncreasing(tracklets[i].inds)
     /\ \A i \in 1..Len(residuals) : StrictlyIncreasing(residuals[i].inds)) =>
        /\ \A trs \in TracksOverTime :
              \A k \in 1..Len(trs) : StrictlyIncreasing(trs[k].inds)
        /\ \A k \in 1..Len(paths) :
              \A a, b \in Range(paths[k]) :
                  a # b => Frames(a) \cap Frames(b) = {}

====
